---- MODULE Spec2Model ----
(***************************************************************************)
(* A model of yeesh: the git-log parser of src/parser.rs (a line-oriented  *)
(* state machine over `input.split("\n").peekable()`) and the histogram    *)
(* of src/histogram.rs.  Lines are TLA+ strings and the regular            *)
(* expressions are evaluated character by character.                       *)
(***************************************************************************)
EXTENDS Integers, Naturals, Sequences, FiniteSets, TLC

VARIABLES
    peeked,     \* parse: the line lines.peek() produced and lines.next() has not taken
    ended,      \* parse: the iterator has returned None
    nlines,     \* parse: number of lines the iterator has produced so far
    state,      \* parse: `state`
    commit,     \* parse: `commit`, the in-progress Commit
    result,     \* parse: `result`, the Vec<Commit> being built
    ret,        \* parse: what parse has returned to its caller
    seen        \* the input produced so far, read against the log grammar

pvars == <<peeked, ended, nlines, state, commit, result, ret, seen>>

VARIABLES
    kind,       \* Histogram::new: `kind`
    h,          \* Histogram::new: `h`, the hdrhistogram being filled
    given,      \* Histogram::new: how many commits of each date-time were iterated
    hpc         \* Histogram::new: "idle", "loop", "done" or "panicked"

hvars == <<kind, h, given, hpc>>

VARIABLES
    arg,        \* parse_author called on its own: `line`, and the parts it is made of
    out         \* parse_author called on its own: what it returned

fvars == <<arg, out>>

VARIABLES
    commits,        \* to_commits: `commits`
    commit_builder, \* to_commits: the commit inside `commit_builder`
    tlines,         \* to_commits: number of lines the for loop has taken
    tpc,            \* to_commits: "idle", "loop", "done" or "panicked"
    noted           \* to_commits: the lines taken so far, read by their kinds

lvars == <<commits, commit_builder, tlines, tpc, noted>>

vars == <<pvars, hvars, fvars, lvars>>

-----------------------------------------------------------------------------
(* Bounds of the model                                                     *)

\* Most lines an input has.
MaxLines == 9

\* Most commits given to Histogram::new.
MaxCommits == 257

\* Most lines of the logs given to to_commits.
MaxLogLines == 5

-----------------------------------------------------------------------------
(* Characters and strings                                                  *)

Ch(s, i) == SubSeq(s, i, i)

Digits == {"0", "1", "2", "3", "4", "5", "6", "7", "8", "9"}

\* char::is_whitespace, as used by str::trim and by the regex class \s
Whitespace == {" ", "\t", "\r"}

DigitVal(c) ==
    CASE c = "0" -> 0 [] c = "1" -> 1 [] c = "2" -> 2 [] c = "3" -> 3
      [] c = "4" -> 4 [] c = "5" -> 5 [] c = "6" -> 6 [] c = "7" -> 7
      [] c = "8" -> 8 [] c = "9" -> 9

AllDigits(s) == \A i \in 1..Len(s) : Ch(s, i) \in Digits

RECURSIVE Decimal(_)
\* the number a run of ASCII digits denotes
Decimal(s) ==
    IF Len(s) = 0 THEN 0
    ELSE 10 * Decimal(SubSeq(s, 1, Len(s) - 1)) + DigitVal(Ch(s, Len(s)))

StartsWithAt(s, i, p) ==
    /\ i + Len(p) - 1 <= Len(s)
    /\ SubSeq(s, i, i + Len(p) - 1) = p

\* str::trim
trim(s) ==
    LET keep == {i \in 1..Len(s) : Ch(s, i) \notin Whitespace}
    IN  IF keep = {} THEN ""
        ELSE LET lo == CHOOSE i \in keep : \A j \in keep : i <= j
                 hi == CHOOSE i \in keep : \A j \in keep : j <= i
             IN  SubSeq(s, lo, hi)

-----------------------------------------------------------------------------
(* Results and options                                                     *)

\* Option<&str>: <<>> is None, <<l>> is Some(l)
None == <<>>
Some(l) == <<l>>

Ok(v) == [ok |-> TRUE, val |-> v]
Err(e) == [ok |-> FALSE, err |-> e]

RECURSIVE CheckedDecimal(_)
\* The digits' value as u32 by checked multiply-and-add, most significant digit
\* first, held in two 16-bit limbs <<high, low>>; Err once it exceeds u32::MAX.
CheckedDecimal(s) ==
    IF Len(s) = 0 THEN Ok(<<0, 0>>)
    ELSE LET prev == CheckedDecimal(SubSeq(s, 1, Len(s) - 1))
         IN  IF ~prev.ok THEN prev
             ELSE LET low == prev.val[2] * 10 + DigitVal(Ch(s, Len(s)))
                      high == prev.val[1] * 10 + (low \div 2^16)
                  IN  IF high >= 2^16 THEN Err("PosOverflow")
                      ELSE Ok(<<high, low % 2^16>>)

\* str::parse::<u32>: an optional '+', then ASCII digits, no overflow
parse_u32(s) ==
    LET d == IF Len(s) > 0 /\ Ch(s, 1) = "+" THEN SubSeq(s, 2, Len(s)) ELSE s
    IN  IF Len(d) = 0 \/ ~AllDigits(d) THEN Err("InvalidDigit")
        ELSE LET v == CheckedDecimal(d)
             IN  IF v.ok THEN Ok(v.val[1] * 2^16 + v.val[2]) ELSE v

-----------------------------------------------------------------------------
(* The regular expressions.  An anchored one, ^<prefix>(.+)$, is its       *)
(* prefix; a stat one, [\s](\d+)<words>.+$, is whether \s leads it and the *)
(* literal texts that may follow the digits.                               *)

HASH_REGEX == [kind |-> "anchored", prefix |-> "commit "]

AUTHOR_REGEX == [kind |-> "author", prefix |-> "Author: "]

DATE_REGEX == [kind |-> "anchored", prefix |-> "Date:"]

FILES_REGEX ==
    [kind |-> "stat", space |-> FALSE, words |-> {" file changed", " files changed"}]

INSERTS_REGEX ==
    [kind |-> "stat", space |-> TRUE, words |-> {" insertion", " insertions"}]

DELETES_REGEX ==
    [kind |-> "stat", space |-> TRUE, words |-> {" deletion", " deletions"}]

\* ^<prefix>(.+)$ : the capture is the rest of the line, at least one character
AnchoredCaptures(regex, line) ==
    IF StartsWithAt(line, 1, regex.prefix) /\ Len(line) > Len(regex.prefix)
    THEN Some(<<SubSeq(line, Len(regex.prefix) + 1, Len(line))>>)
    ELSE None

\* ^Author: (.+?) <(.+)>$ : the groups split at the first " <" instead
AuthorCapturesLazy(regex, line) ==
    LET n == Len(line)
        p == Len(regex.prefix)
        cuts == {k \in (p + 2)..(n - 3) : SubSeq(line, k, k + 1) = " <"}
    IN  IF StartsWithAt(line, 1, regex.prefix) /\ n > 0 /\ Ch(line, n) = ">"
           /\ cuts # {}
        THEN LET k == CHOOSE c \in cuts : \A d \in cuts : c <= d
             IN  Some(<<SubSeq(line, p + 1, k - 1), SubSeq(line, k + 2, n - 1)>>)
        ELSE None

\* ^Author: (.+) <(.+)>$ : the first group is greedy, so the groups split at
\* the last " <" that leaves both non-empty
AuthorCaptures(regex, line) ==
    LET n == Len(line)
        p == Len(regex.prefix)
        cuts == {k \in (p + 2)..(n - 3) : SubSeq(line, k, k + 1) = " <"}
    IN  IF StartsWithAt(line, 1, regex.prefix) /\ n > 0 /\ Ch(line, n) = ">"
           /\ cuts # {}
        THEN LET k == CHOOSE c \in cuts : \A d \in cuts : d <= c
             IN  Some(<<SubSeq(line, p + 1, k - 1), SubSeq(line, k + 2, n - 1)>>)
        ELSE None

\* the last index of the digit run that starts at i
DigitRunEnd(line, i) ==
    CHOOSE j \in i..Len(line) :
        /\ \A k \in i..j : Ch(line, k) \in Digits
        /\ (j = Len(line) \/ Ch(line, j + 1) \notin Digits)

\* whether [\s](\d+)<word>.+$ matches with its digits starting at i
StatMatchesAt(regex, line, i) ==
    /\ Ch(line, i) \in Digits
    /\ regex.space => (i > 1 /\ Ch(line, i - 1) \in Whitespace)
    /\ \E w \in regex.words :
          LET j == DigitRunEnd(line, i)
          IN  /\ StartsWithAt(line, j + 1, w)
              /\ Len(line) > j + Len(w)

\* the leftmost match; \d+ is greedy and must run up to the word
StatCaptures(regex, line) ==
    LET starts == {i \in 1..Len(line) : StatMatchesAt(regex, line, i)}
    IN  IF starts = {} THEN None
        ELSE LET i == CHOOSE a \in starts : \A b \in starts : a <= b
             IN  Some(<<SubSeq(line, i, DigitRunEnd(line, i))>>)

\* Regex::captures
captures(regex, line) ==
    CASE regex.kind = "anchored" -> AnchoredCaptures(regex, line)
      [] regex.kind = "author" -> AuthorCaptures(regex, line)
      [] regex.kind = "stat" -> StatCaptures(regex, line)

one_match(regex, line) ==
    LET caps == captures(regex, line)
    IN  IF caps = None THEN Err("NoMatch") ELSE Ok(caps[1][1])

\* two_matches with the two groups in the other order
two_matches_swapped(regex, line) ==
    LET caps == captures(regex, line)
    IN  IF caps = None THEN Err("NoMatch") ELSE Ok(<<caps[1][2], caps[1][1]>>)

two_matches(regex, line) ==
    LET caps == captures(regex, line)
    IN  IF caps = None THEN Err("NoMatch") ELSE Ok(<<caps[1][1], caps[1][2]>>)

-----------------------------------------------------------------------------
(* Date-times                                                              *)

IsLeapYear(y) == (y % 4 = 0 /\ y % 100 # 0) \/ y % 400 = 0

DaysInMonth(y, m) ==
    CASE m \in {1, 3, 5, 7, 8, 10, 12} -> 31
      [] m \in {4, 6, 9, 11} -> 30
      [] m = 2 -> IF IsLeapYear(y) THEN 29 ELSE 28

DateTime(y, mo, d, hh, mi, sec) ==
    [year |-> y, month |-> mo, day |-> d, hour |-> hh, minute |-> mi, second |-> sec]

\* datetime!(1970-01-01 0:0:0)
unix_epoch == DateTime(1970, 1, 1, 0, 0, 0)

\* PrimitiveDateTime::parse against "[year]-[month]-[day] [hour]:[minute]:[second]":
\* four-digit year with an optional '-', two-digit fields, the literals between
\* them, nothing after, and every field in its range
PrimitiveDateTime_parse(s) ==
    LET neg == Len(s) > 0 /\ Ch(s, 1) = "-"
        b == IF neg THEN SubSeq(s, 2, Len(s)) ELSE s
        num(i, j) == Decimal(SubSeq(b, i, j))
    IN  IF /\ Len(b) = 19
           /\ \A i \in {1, 2, 3, 4, 6, 7, 9, 10, 12, 13, 15, 16, 18, 19} :
                 Ch(b, i) \in Digits
           /\ Ch(b, 5) = "-" /\ Ch(b, 8) = "-" /\ Ch(b, 11) = " "
           /\ Ch(b, 14) = ":" /\ Ch(b, 17) = ":"
           /\ num(6, 7) \in 1..12
           /\ num(9, 10) \in 1..DaysInMonth(num(1, 4), num(6, 7))
           /\ num(12, 13) \in 0..23
           /\ num(15, 16) \in 0..59
           /\ num(18, 19) \in 0..59
        THEN Ok(DateTime(IF neg THEN 0 - num(1, 4) ELSE num(1, 4), num(6, 7),
                         num(9, 10), num(12, 13), num(15, 16), num(18, 19)))
        ELSE Err("BadDate")

-----------------------------------------------------------------------------
(* Commits                                                                 *)

Author_new(name, email) == [name |-> name, email |-> email]

\* Commit::default()
Commit_default ==
    [hash |-> "", author |-> Author_new("", ""), date |-> unix_epoch,
     files |-> 0, inserts |-> 0, deletes |-> 0]

-----------------------------------------------------------------------------
(* The line parsers: each takes the Option<&str> that lines.next() gave    *)

parse_hash(line) ==
    IF line = None THEN Err("UnexpectedEndOfInput")
    ELSE one_match(HASH_REGEX, line[1])

parse_author(line) ==
    IF line = None THEN Err("UnexpectedEndOfInput")
    ELSE LET m == two_matches(AUTHOR_REGEX, line[1])
         IN  IF m.ok THEN Ok(Author_new(m.val[1], m.val[2])) ELSE m

\* parse_date with a missing line taken as an empty one
parse_date_or_empty(line) ==
    LET m == one_match(DATE_REGEX, IF line = None THEN "" ELSE line[1])
    IN  IF m.ok THEN PrimitiveDateTime_parse(trim(m.val)) ELSE m

\* parse_date with a value that fails to parse reported as no match
parse_date_one_error(line) ==
    IF line = None THEN Err("UnexpectedEndOfInput")
    ELSE LET m == one_match(DATE_REGEX, line[1])
             d == PrimitiveDateTime_parse(trim(m.val))
         IN  IF m.ok THEN (IF d.ok THEN d ELSE Err("NoMatch")) ELSE m

parse_date(line) ==
    IF line = None THEN Err("UnexpectedEndOfInput")
    ELSE LET m == one_match(DATE_REGEX, line[1])
         IN  IF m.ok THEN PrimitiveDateTime_parse(trim(m.val)) ELSE m

\* Result::unwrap_or_default for u32
unwrap_or_default(r) == IF r.ok THEN r.val ELSE 0

\* parse_stat that hands on the error of str::parse
parse_stat_strict(regex, line) ==
    IF line = None THEN Err("UnexpectedEndOfInput")
    ELSE LET m == one_match(regex, line[1])
         IN  IF m.ok
             THEN (IF parse_u32(m.val).ok THEN Ok(parse_u32(m.val).val)
                   ELSE parse_u32(m.val))
             ELSE m

parse_stat(regex, line) ==
    IF line = None THEN Err("UnexpectedEndOfInput")
    ELSE LET m == one_match(regex, line[1])
         IN  IF m.ok THEN Ok(unwrap_or_default(parse_u32(m.val))) ELSE m

-----------------------------------------------------------------------------
(* The inputs.  Every line of an input is the text of one of these         *)
(* samples; beside its text a sample carries how the log grammar reads the *)
(* line: its kind and the literal values written on it (a stat clause      *)
(* that the line lacks is "").                                             *)

Sample(text, reading) ==
    [text |-> text, kind |-> reading, hash |-> "", name |-> "", email |-> "",
     date |-> unix_epoch, files |-> "", inserts |-> "", deletes |-> ""]

HashSample(text, hash) == [Sample(text, "hash") EXCEPT !.hash = hash]

AuthorSample(text, name, email) ==
    [Sample(text, "author") EXCEPT !.name = name, !.email = email]

DateSample(text, date) == [Sample(text, "date") EXCEPT !.date = date]

StatsSample(text, files, inserts, deletes) ==
    [Sample(text, "stats") EXCEPT
        !.files = files, !.inserts = inserts, !.deletes = deletes]

Samples ==
    { HashSample("commit a75", "a75"),
      HashSample("commit def456", "def456"),
      AuthorSample("Author: Jon <jon@email.ca>", "Jon", "jon@email.ca"),
      AuthorSample("Author: Not Jon <notjon@email.org>", "Not Jon", "notjon@email.org"),
      DateSample("Date:   2022-11-24 22:11:50", DateTime(2022, 11, 24, 22, 11, 50)),
      DateSample("Date: 2022-11-27 00:05:09", DateTime(2022, 11, 27, 0, 5, 9)),
      Sample("Date:   2022-13-24 22:11:50", "baddate"),
      Sample("Date:   not-a-date", "baddate"),
      Sample("Date:", "text"),
      Sample("", "blank"),
      Sample("  ", "blank"),
      Sample("  Do things", "text"),
      StatsSample("  1 file changed, 43 insertions(+), 62 deletions(-)", "1", "43", "62"),
      StatsSample("  1 file changed, 62 deletions(-)", "1", "", "62"),
      StatsSample("  22 insertions(+)", "", "22", ""),
      StatsSample("  Revert 3 files changed by hand", "3", "", ""),
      StatsSample("  4294967297 deletions(-)", "", "", "4294967297"),
      StatsSample("  11 files changed, 4294967296 insertions(+)", "11", "4294967296", "") }

LineSet == {s.text : s \in Samples}

Reading(l) == CHOOSE s \in Samples : s.text = l

\* the literal values of a record, gathered from its lines
Literal ==
    [hash |-> "", name |-> "", email |-> "", date |-> unix_epoch,
     files |-> "", inserts |-> "", deletes |-> ""]

\* The input read against the grammar
\*     input  ::= blank* (record blank*)*
\*     record ::= hash author date message* stats
\* where a stats line is a line that states at least one stat, be it in the
\* words of a commit message, and a message line is any other line.
\* at: what the grammar expects next; why: where and on what kind of line the
\* input left the grammar; lead: a blank line precedes the first record;
\* trail: a blank line follows the latest record; gaps: how many records began
\* after such a blank line; want: the literal values of the records completed
\* so far; cur: those of the record in progress.
NothingSeen ==
    [at |-> "start", why |-> <<>>, lead |-> FALSE, trail |-> FALSE, gaps |-> 0,
     want |-> <<>>, cur |-> Literal]

Read(g, l) ==
    LET r == Reading(l)
        k == r.kind
        bad == [g EXCEPT !.at = "bad", !.why = <<g.at, k>>]
    IN  CASE g.at = "start" ->
               IF k = "blank" THEN [g EXCEPT !.lead = TRUE]
               ELSE IF k = "hash"
               THEN [g EXCEPT !.at = "author", !.cur = [Literal EXCEPT !.hash = r.hash]]
               ELSE bad
          [] g.at = "between" ->
               IF k = "blank" THEN [g EXCEPT !.trail = TRUE]
               ELSE IF k = "hash"
               THEN [g EXCEPT !.at = "author", !.trail = FALSE,
                              !.gaps = IF g.trail THEN g.gaps + 1 ELSE g.gaps,
                              !.cur = [Literal EXCEPT !.hash = r.hash]]
               ELSE bad
          [] g.at = "author" ->
               IF k = "author"
               THEN [g EXCEPT !.at = "date", !.cur.name = r.name, !.cur.email = r.email]
               ELSE bad
          [] g.at = "date" ->
               IF k = "date"
               THEN [g EXCEPT !.at = "body", !.cur.date = r.date]
               ELSE bad
          [] g.at = "body" ->
               IF k = "stats"
               THEN [g EXCEPT !.at = "between",
                              !.want = Append(g.want,
                                  [g.cur EXCEPT !.files = r.files,
                                                !.inserts = r.inserts,
                                                !.deletes = r.deletes]),
                              !.cur = Literal]
               ELSE g
          [] g.at = "bad" -> g

\* What the iterator yields next, as [line, ended, nlines, seen]: the line
\* already peeked; None once the input is exhausted; otherwise the input
\* either ends here (split yields at least one line) or goes on with one
\* more line.
Upcoming ==
    IF peeked # None
    THEN {[line |-> peeked, ended |-> ended, nlines |-> nlines, seen |-> seen]}
    ELSE IF ended
    THEN {[line |-> None, ended |-> TRUE, nlines |-> nlines, seen |-> seen]}
    ELSE {[line |-> None, ended |-> TRUE, nlines |-> nlines, seen |-> seen] :
              x \in {1} \cap 1..nlines}
         \cup {[line |-> Some(l), ended |-> FALSE, nlines |-> nlines + 1,
                seen |-> Read(seen, l)] :
                  l \in IF nlines < MaxLines THEN LineSet ELSE {}}

-----------------------------------------------------------------------------
(* parse                                                                   *)

Running == [tag |-> "Running", error |-> "", commits |-> <<>>]

\* an error return that hands over the commits accepted so far
RaiseWithResult(e) == ret' = [tag |-> "Err", error |-> e, commits |-> result]

\* `?` on an Err: parse returns the error, and `result` is dropped
Raise(e) == ret' = [tag |-> "Err", error |-> e, commits |-> <<>>]

\* Ok(result)
Return == ret' = [tag |-> "Ok", error |-> "", commits |-> result]

\* let mut state = State::Hash
InitialState == "Hash"

ParseInit ==
    /\ peeked = None
    /\ ended = FALSE
    /\ nlines = 0
    /\ state = InitialState
    /\ commit = Commit_default
    /\ result = <<>>
    /\ ret = Running
    /\ seen = NothingSeen

\* Histogram::new is not running
HistIdle ==
    /\ kind = "ByHour"
    /\ h = [counts |-> <<>>, total_count |-> 0]
    /\ given = <<>>
    /\ hpc = "idle"

\* no call of parse_author on its own
CallIdle ==
    /\ arg = None
    /\ out = None

\* to_commits is not running
ScanIdle ==
    /\ commits = <<>>
    /\ commit_builder = <<>>
    /\ tlines = 0
    /\ tpc = "idle"
    /\ noted = <<>>

Init ==
    /\ ParseInit
    /\ HistIdle
    /\ CallIdle
    /\ ScanIdle

\* lines.peek() or lines.next() yielding u
Yield(u) ==
    /\ ended' = u.ended
    /\ nlines' = u.nlines
    /\ seen' = u.seen

\* State::Start that takes the line it hands to State::Hash
StartStepConsuming ==
    /\ ret = Running
    /\ UNCHANGED <<hvars, fvars, lvars>>
    /\ state = "Start"
    /\ \E u \in Upcoming :
          /\ Yield(u)
          /\ IF u.line = None
             THEN /\ Return
                  /\ UNCHANGED <<peeked, state>>
             ELSE IF Len(trim(u.line[1])) = 0
             THEN /\ peeked' = None
                  /\ UNCHANGED <<state, ret>>
             ELSE /\ peeked' = None
                  /\ state' = "Hash"
                  /\ UNCHANGED ret
    /\ UNCHANGED <<commit, result>>

\* State::Start => match lines.peek()
StartStep ==
    /\ ret = Running
    /\ UNCHANGED <<hvars, fvars, lvars>>
    /\ state = "Start"
    /\ \E u \in Upcoming :
          /\ Yield(u)
          /\ IF u.line = None
             THEN /\ Return
                  /\ UNCHANGED <<peeked, state>>
             ELSE IF Len(trim(u.line[1])) = 0
             THEN /\ peeked' = None
                  /\ UNCHANGED <<state, ret>>
             ELSE /\ peeked' = u.line
                  /\ state' = "Hash"
                  /\ UNCHANGED ret
    /\ UNCHANGED <<commit, result>>

\* State::Hash that keeps a hash the commit already has
HashStepKeepingFirst ==
    /\ ret = Running
    /\ UNCHANGED <<hvars, fvars, lvars>>
    /\ state = "Hash"
    /\ \E u \in Upcoming :
          LET r == parse_hash(u.line)
          IN  /\ Yield(u)
              /\ peeked' = None
              /\ IF r.ok
                 THEN /\ commit' = [commit EXCEPT
                                       !.hash = IF @ = "" THEN r.val ELSE @]
                      /\ state' = "Author"
                      /\ UNCHANGED ret
                 ELSE /\ Raise(r.err)
                      /\ UNCHANGED <<commit, state>>
    /\ UNCHANGED result

\* State::Hash that passes over a line that is no commit line
HashStepSkipping ==
    /\ ret = Running
    /\ UNCHANGED <<hvars, fvars, lvars>>
    /\ state = "Hash"
    /\ \E u \in Upcoming :
          LET r == parse_hash(u.line)
          IN  /\ Yield(u)
              /\ peeked' = None
              /\ IF r.ok
                 THEN /\ commit' = [commit EXCEPT !.hash = r.val]
                      /\ state' = "Author"
                      /\ UNCHANGED ret
                 ELSE IF r.err = "NoMatch"
                 THEN UNCHANGED <<commit, state, ret>>
                 ELSE /\ Raise(r.err)
                      /\ UNCHANGED <<commit, state>>
    /\ UNCHANGED result

\* State::Hash
HashStep ==
    /\ ret = Running
    /\ UNCHANGED <<hvars, fvars, lvars>>
    /\ state = "Hash"
    /\ \E u \in Upcoming :
          LET r == parse_hash(u.line)
          IN  /\ Yield(u)
              /\ peeked' = None
              /\ IF r.ok
                 THEN /\ commit' = [commit EXCEPT !.hash = r.val]
                      /\ state' = "Author"
                      /\ UNCHANGED ret
                 ELSE /\ Raise(r.err)
                      /\ UNCHANGED <<commit, state>>
    /\ UNCHANGED result

\* State::Author
AuthorStep ==
    /\ ret = Running
    /\ UNCHANGED <<hvars, fvars, lvars>>
    /\ state = "Author"
    /\ \E u \in Upcoming :
          LET r == parse_author(u.line)
          IN  /\ Yield(u)
              /\ peeked' = None
              /\ IF r.ok
                 THEN /\ commit' = [commit EXCEPT !.author = r.val]
                      /\ state' = "Date"
                      /\ UNCHANGED ret
                 ELSE /\ Raise(r.err)
                      /\ UNCHANGED <<commit, state>>
    /\ UNCHANGED result

\* State::Date that checks the line and leaves commit.date as it was
DateStepKeepingDate ==
    /\ ret = Running
    /\ UNCHANGED <<hvars, fvars, lvars>>
    /\ state = "Date"
    /\ \E u \in Upcoming :
          LET r == parse_date(u.line)
          IN  /\ Yield(u)
              /\ peeked' = None
              /\ IF r.ok
                 THEN /\ state' = "Stats"
                      /\ UNCHANGED <<commit, ret>>
                 ELSE /\ Raise(r.err)
                      /\ UNCHANGED <<commit, state>>
    /\ UNCHANGED result

\* State::Date
DateStep ==
    /\ ret = Running
    /\ UNCHANGED <<hvars, fvars, lvars>>
    /\ state = "Date"
    /\ \E u \in Upcoming :
          LET r == parse_date(u.line)
          IN  /\ Yield(u)
              /\ peeked' = None
              /\ IF r.ok
                 THEN /\ commit' = [commit EXCEPT !.date = r.val]
                      /\ state' = "Stats"
                      /\ UNCHANGED ret
                 ELSE /\ Raise(r.err)
                      /\ UNCHANGED <<commit, state>>
    /\ UNCHANGED result

\* State::Stats that sets only the stats that matched
StatsStepKeepingUnmatched ==
    /\ ret = Running
    /\ UNCHANGED <<hvars, fvars, lvars>>
    /\ state = "Stats"
    /\ \E u \in Upcoming :
          LET files == parse_stat(FILES_REGEX, u.line)
              inserts == parse_stat(INSERTS_REGEX, u.line)
              deletes == parse_stat(DELETES_REGEX, u.line)
          IN  /\ Yield(u)
              /\ peeked' = None
              /\ IF ~files.ok /\ ~inserts.ok /\ ~deletes.ok
                 THEN UNCHANGED <<commit, state>>
                 ELSE /\ commit' = [commit EXCEPT
                            !.files = IF files.ok THEN files.val ELSE @,
                            !.inserts = IF inserts.ok THEN inserts.val ELSE @,
                            !.deletes = IF deletes.ok THEN deletes.val ELSE @]
                      /\ state' = "Accept"
    /\ UNCHANGED <<result, ret>>

\* State::Stats that waits for a line stating the files changed
StatsStepNeedingFiles ==
    /\ ret = Running
    /\ UNCHANGED <<hvars, fvars, lvars>>
    /\ state = "Stats"
    /\ \E u \in Upcoming :
          LET files == parse_stat(FILES_REGEX, u.line)
              inserts == parse_stat(INSERTS_REGEX, u.line)
              deletes == parse_stat(DELETES_REGEX, u.line)
          IN  /\ Yield(u)
              /\ peeked' = None
              /\ IF ~files.ok
                 THEN UNCHANGED <<commit, state>>
                 ELSE /\ commit' = [commit EXCEPT
                                       !.files = unwrap_or_default(files),
                                       !.inserts = unwrap_or_default(inserts),
                                       !.deletes = unwrap_or_default(deletes)]
                      /\ state' = "Accept"
    /\ UNCHANGED <<result, ret>>

\* State::Stats
StatsStep ==
    /\ ret = Running
    /\ UNCHANGED <<hvars, fvars, lvars>>
    /\ state = "Stats"
    /\ \E u \in Upcoming :
          LET files == parse_stat(FILES_REGEX, u.line)
              inserts == parse_stat(INSERTS_REGEX, u.line)
              deletes == parse_stat(DELETES_REGEX, u.line)
          IN  /\ Yield(u)
              /\ peeked' = None
              /\ IF ~files.ok /\ ~inserts.ok /\ ~deletes.ok
                 THEN UNCHANGED <<commit, state>>
                 ELSE /\ commit' = [commit EXCEPT
                                       !.files = unwrap_or_default(files),
                                       !.inserts = unwrap_or_default(inserts),
                                       !.deletes = unwrap_or_default(deletes)]
                      /\ state' = "Accept"
    /\ UNCHANGED <<result, ret>>

\* State::Accept that puts the commit in front
AcceptStepPrepending ==
    /\ ret = Running
    /\ UNCHANGED <<hvars, fvars, lvars>>
    /\ state = "Accept"
    /\ result' = <<commit>> \o result
    /\ state' = "Start"
    /\ UNCHANGED <<peeked, ended, nlines, commit, ret, seen>>

\* State::Accept that goes on to State::Hash
AcceptStepToHash ==
    /\ ret = Running
    /\ UNCHANGED <<hvars, fvars, lvars>>
    /\ state = "Accept"
    /\ result' = Append(result, commit)
    /\ state' = "Hash"
    /\ UNCHANGED <<peeked, ended, nlines, commit, ret, seen>>

\* State::Accept
AcceptStep ==
    /\ ret = Running
    /\ UNCHANGED <<hvars, fvars, lvars>>
    /\ state = "Accept"
    /\ result' = Append(result, commit)
    /\ state' = "Start"
    /\ UNCHANGED <<peeked, ended, nlines, commit, ret, seen>>

Next ==
    \/ StartStep
    \/ HashStep
    \/ AuthorStep
    \/ DateStep
    \/ StatsStep
    \/ AcceptStep

Spec == Init /\ [][Next]_vars

-----------------------------------------------------------------------------
(* Histogram::new                                                          *)

\* T::max_value() of the counter type u8 of hdrhistogram::Histogram<u8>
u8_MAX == 255

RECURSIVE PowerOfTwoFrom(_, _)
PowerOfTwoFrom(p, n) == IF p >= n THEN p ELSE PowerOfTwoFrom(2 * p, n)

\* hdrhistogram::Histogram::new_with_bounds(low, high, sigfig) for a range that
\* one bucket covers (high below the sub-bucket count, the power of two from
\* 2 * 10^sigfig up): one count per value, all 0, and no auto-resize
new_with_bounds(low, high, sigfig) ==
    [counts |-> [v \in 0..(PowerOfTwoFrom(1, 2 * 10^sigfig) - 1) |-> 0],
     total_count |-> 0]

\* Histogram::record that keeps the count of the latest value only
record_forgetting(hist, value) ==
    IF value \notin DOMAIN hist.counts THEN Err("ValueOutOfRangeResizeDisabled")
    ELSE Ok([counts |-> [v \in DOMAIN hist.counts |->
                            IF v # value THEN 0
                            ELSE IF hist.counts[v] >= u8_MAX THEN u8_MAX
                            ELSE hist.counts[v] + 1],
             total_count |-> hist.total_count + 1])

\* Histogram::record: Err for a value outside the counts; otherwise the
\* value's count goes up by a saturating add and total_count by one
record(hist, value) ==
    IF value \notin DOMAIN hist.counts THEN Err("ValueOutOfRangeResizeDisabled")
    ELSE Ok([counts |-> [hist.counts EXCEPT ![value] =
                            IF @ >= u8_MAX THEN u8_MAX ELSE @ + 1],
             total_count |-> hist.total_count + 1])

\* days from 1970-01-01 to the date
DaysFromEpoch(date) ==
    LET y == IF date.month <= 2 THEN date.year - 1 ELSE date.year
        era == y \div 400
        yoe == y - era * 400
        mp == IF date.month > 2 THEN date.month - 3 ELSE date.month + 9
        doy == (153 * mp + 2) \div 5 + date.day - 1
        doe == yoe * 365 + yoe \div 4 - yoe \div 100 + doy
    IN  era * 146097 + doe - 719468

\* PrimitiveDateTime::weekday, 0 for Monday to 6 for Sunday
weekday(date) == (DaysFromEpoch(date) + 3) % 7

get_hour(c) == c.date.hour

\* get_weekday numbering the days from Monday => 0
get_weekday_from_zero(c) == weekday(c.date)

\* Monday => 1, ..., Sunday => 7
get_weekday(c) == weekday(c.date) + 1

\* the date-times of the commits given to Histogram::new
GivenDates ==
    { DateTime(2022, 11, 24, 22, 11, 50),
      DateTime(2022, 11, 27, 0, 5, 9) }

\* how many commits have been iterated
Given == LET RECURSIVE Sum(_)
             Sum(S) == IF S = {} THEN 0
                       ELSE LET d == CHOOSE x \in S : TRUE
                            IN  given[d] + Sum(S \ {d})
         IN  Sum(DOMAIN given)

HistInit ==
    /\ ParseInit
    /\ kind \in {"ByHour", "ByWeekday"}
    /\ h = IF kind = "ByHour" THEN new_with_bounds(1, 24, 1)
           ELSE new_with_bounds(1, 7, 1)
    /\ given = [d \in GivenDates |-> 0]
    /\ hpc = "loop"
    /\ CallIdle
    /\ ScanIdle

\* for commit in commits { h.record(key).unwrap(); }
RecordStep ==
    /\ hpc = "loop"
    /\ Given < MaxCommits
    /\ \E d \in GivenDates :
          LET c == [Commit_default EXCEPT !.date = d]
              key == IF kind = "ByHour" THEN get_hour(c) ELSE get_weekday(c)
              r == record(h, key)
          IN  /\ given' = [given EXCEPT ![d] = @ + 1]
              /\ IF r.ok
                 THEN h' = r.val /\ hpc' = "loop"
                 ELSE h' = h /\ hpc' = "panicked"
    /\ UNCHANGED <<kind, pvars, fvars, lvars>>

\* the commits are exhausted: Histogram { histogram }
FinishStep ==
    /\ hpc = "loop"
    /\ hpc' = "done"
    /\ UNCHANGED <<kind, h, given, pvars, fvars, lvars>>

HistNext ==
    \/ RecordStep
    \/ FinishStep

HistSpec == HistInit /\ [][HistNext]_vars

-----------------------------------------------------------------------------
(* parse_author called on its own, on lines put together from a name and   *)
(* an email                                                                *)

\* names without " <"
PlainNames == {"Jon", "Not Jon", "J", "jon", "Jon Q Public"}

\* names that themselves hold brackets
BracketNames == {"A <b>", "<", "Jon <jon@old.ca>"}

Emails == {"jon@email.ca", "notjon@email.org", "a@b", "x", "a b", "a>b"}

AuthorLine(shape, name, email) ==
    CASE shape = "full" -> "Author: " \o name \o " <" \o email \o ">"
      [] shape = "noname" -> "Author: <" \o email \o ">"
      [] shape = "noemail" -> "Author: " \o name
      [] shape = "nothing in brackets" -> "Author: " \o name \o " <>"
      [] shape = "no brackets" -> "Author: " \o name \o " " \o email
      [] shape = "neither" -> "Author: "

AuthorArg(shape, name, email) ==
    [shape |-> shape, name |-> name, email |-> email,
     line |-> Some(AuthorLine(shape, name, email))]

AuthorArgs ==
    {AuthorArg("full", n, e) : n \in PlainNames \cup BracketNames, e \in Emails}
    \cup {AuthorArg("noname", "", e) : e \in Emails}
    \cup {AuthorArg("noemail", n, "") : n \in PlainNames}
    \cup {AuthorArg("nothing in brackets", n, "") : n \in PlainNames}
    \cup {AuthorArg("no brackets", n, e) : n \in PlainNames, e \in Emails}
    \cup {AuthorArg("neither", "", "")}
    \cup {[shape |-> "absent", name |-> "", email |-> "", line |-> None]}

AuthorInit ==
    /\ ParseInit
    /\ HistIdle
    /\ arg \in AuthorArgs
    /\ out = None
    /\ ScanIdle

\* parse_author(line)
ParseAuthorCall ==
    /\ arg # None
    /\ out = None
    /\ out' = Some(parse_author(arg.line))
    /\ UNCHANGED <<arg, pvars, hvars, lvars>>

AuthorNext == ParseAuthorCall

AuthorSpec == AuthorInit /\ [][AuthorNext]_vars

-----------------------------------------------------------------------------
(* to_commits of src/log_parser.rs, the line scanner, with the             *)
(* CommitBuilder of src/commit_builder.rs                                  *)

re_hash == HASH_REGEX

re_auth == AUTHOR_REGEX

re_date == DATE_REGEX

re_files == FILES_REGEX

re_inserts == INSERTS_REGEX

re_deletes == DELETES_REGEX

get_one(re, line) ==
    LET cap == captures(re, line)
    IN  IF cap = None THEN None ELSE Some(cap[1][1])

get_two(re, line) ==
    LET cap == captures(re, line)
    IN  IF cap = None THEN None ELSE Some(<<cap[1][1], cap[1][2]>>)

WeekdayNames == <<"Mon", "Tue", "Wed", "Thu", "Fri", "Sat", "Sun">>

MonthNames ==
    <<"Jan", "Feb", "Mar", "Apr", "May", "Jun",
      "Jul", "Aug", "Sep", "Oct", "Nov", "Dec">>

\* a DateTime<FixedOffset>: the local date-time and the offset in minutes
FixedOffsetDateTime(date, offset) == [local |-> date, offset |-> offset]

\* chrono's DateTime::parse_from_rfc2822 on the layout
\*     [Www, ]D[D] Mon YYYY HH:MM:SS (+|-)HHMM
\* with single spaces: every field in its range, the day within its month
\* and the day of the week, when given, that of the date.  Any other text
\* is an error here; the lines the scanner is given have no other layout
\* that chrono accepts.
parse_from_rfc2822(s) ==
    LET named == /\ Len(s) >= 5
                 /\ \E i \in 1..7 : SubSeq(s, 1, 3) = WeekdayNames[i]
                 /\ SubSeq(s, 4, 5) = ", "
        t == IF named THEN SubSeq(s, 6, Len(s)) ELSE s
        nd == IF Len(t) >= 2 /\ Ch(t, 2) \in Digits THEN 2 ELSE 1
        r == SubSeq(t, nd + 1, Len(t))
        num(i, j) == Decimal(SubSeq(r, i, j))
    IN  IF /\ Len(t) >= 1 /\ Ch(t, 1) \in Digits
           /\ Len(r) = 24
           /\ Ch(r, 1) = " " /\ Ch(r, 5) = " " /\ Ch(r, 10) = " " /\ Ch(r, 19) = " "
           /\ \E m \in 1..12 : SubSeq(r, 2, 4) = MonthNames[m]
           /\ \A i \in {6, 7, 8, 9, 11, 12, 14, 15, 17, 18, 21, 22, 23, 24} :
                 Ch(r, i) \in Digits
           /\ Ch(r, 13) = ":" /\ Ch(r, 16) = ":"
           /\ Ch(r, 20) \in {"+", "-"}
           /\ num(11, 12) \in 0..23
           /\ num(14, 15) \in 0..59
           /\ num(17, 18) \in 0..59
           /\ num(23, 24) \in 0..59
        THEN LET m == CHOOSE i \in 1..12 : SubSeq(r, 2, 4) = MonthNames[i]
                 d == DateTime(num(6, 9), m, Decimal(SubSeq(t, 1, nd)),
                               num(11, 12), num(14, 15), num(17, 18))
                 mins == num(21, 22) * 60 + num(23, 24)
             IN  IF /\ d.day \in 1..DaysInMonth(d.year, d.month)
                    /\ named => WeekdayNames[weekday(d) + 1] = SubSeq(s, 1, 3)
                 THEN Ok(FixedOffsetDateTime(d,
                             IF Ch(r, 20) = "-" THEN 0 - mins ELSE mins))
                 ELSE Err("Impossible")
        ELSE Err("Invalid")

\* CommitBuilder::new
CommitBuilder_new ==
    [hash |-> "", name |-> "", email |-> "", date |-> None,
     files |-> 0, inserts |-> 0, deletes |-> 0]

\* The lines of the logs.  Beside its text a line carries its kind and the
\* values written on it (a stat clause that the line lacks is "").
LogSample(text, reading) ==
    [text |-> text, kind |-> reading, hash |-> "", name |-> "", email |-> "",
     date |-> None, files |-> "", inserts |-> "", deletes |-> ""]

LogSamples ==
    { [LogSample("commit a75", "hash") EXCEPT !.hash = "a75"],
      [LogSample("commit def456", "hash") EXCEPT !.hash = "def456"],
      [LogSample("Author: Jon <jon@email.ca>", "author") EXCEPT
          !.name = "Jon", !.email = "jon@email.ca"],
      [LogSample("Author: Not Jon <notjon@email.org>", "author") EXCEPT
          !.name = "Not Jon", !.email = "notjon@email.org"],
      [LogSample("Date:   Thu, 24 Nov 2022 22:11:50 -0800", "date") EXCEPT
          !.date = Some(FixedOffsetDateTime(DateTime(2022, 11, 24, 22, 11, 50),
                                            0 - 480))],
      [LogSample("Date:   Sun, 27 Nov 2022 00:05:09 +0000", "date") EXCEPT
          !.date = Some(FixedOffsetDateTime(DateTime(2022, 11, 27, 0, 5, 9), 0))],
      LogSample("Date:   2022-11-24 22:11:50", "baddate"),
      LogSample("Date:   Fri, 24 Nov 2022 22:11:50 -0800", "baddate"),
      LogSample("", "text"),
      LogSample("    Do things", "text"),
      [LogSample(" 1 file changed, 43 insertions(+), 62 deletions(-)", "stats")
          EXCEPT !.files = "1", !.inserts = "43", !.deletes = "62"],
      [LogSample(" 2 files changed, 62 deletions(-)", "stats") EXCEPT
          !.files = "2", !.deletes = "62"],
      [LogSample(" 22 insertions(+)", "stats") EXCEPT !.inserts = "22"],
      [LogSample(" 7 deletions(-)", "stats") EXCEPT !.deletes = "7"],
      [LogSample(" 4294967296 files changed, 1 insertion(+)", "overflow") EXCEPT
          !.files = "4294967296", !.inserts = "1"] }

LogLineSet == {x.text : x \in LogSamples}

LogReadings == [l \in LogLineSet |-> CHOOSE x \in LogSamples : x.text = l]

LogReading(l) == LogReadings[l]

\* what the six matchers find on each line of the logs: the captures, and
\* what DateTime::parse_from_rfc2822 and str::parse::<u32> make of them
LineMatches ==
    [line \in LogLineSet |->
        LET date == get_one(re_date, line)
            value(stat) == IF stat = None THEN Ok(0) ELSE parse_u32(stat[1])
        IN  [hash |-> get_one(re_hash, line),
             auth |-> get_two(re_auth, line),
             date |-> date,
             date_time |-> IF date = None THEN Ok(None)
                           ELSE parse_from_rfc2822(trim(date[1])),
             files |-> get_one(re_files, line),
             inserts |-> get_one(re_inserts, line),
             deletes |-> get_one(re_deletes, line),
             files_value |-> value(get_one(re_files, line)),
             inserts_value |-> value(get_one(re_inserts, line)),
             deletes_value |-> value(get_one(re_deletes, line))]]

\* the builder after the six matchers found m on a line, whether the line
\* makes the scanner build, and whether an expect or unwrap panicked
Matched(builder, m) ==
    LET b1 == [builder EXCEPT !.hash = IF m.hash = None THEN @ ELSE m.hash[1]]
        b2 == [b1 EXCEPT !.name = IF m.auth = None THEN @ ELSE m.auth[1][1],
                         !.email = IF m.auth = None THEN @ ELSE m.auth[1][2]]
        b3 == [b2 EXCEPT
                  !.date = IF m.date = None THEN @ ELSE Some(m.date_time.val)]
        b4 == [b3 EXCEPT
                  !.files = IF m.files = None THEN @ ELSE m.files_value.val]
        b5 == [b4 EXCEPT
                  !.inserts = IF m.inserts = None THEN @ ELSE m.inserts_value.val]
        b6 == [b5 EXCEPT
                  !.deletes = IF m.deletes = None THEN @ ELSE m.deletes_value.val]
    IN  IF ~m.date_time.ok \/ ~m.files_value.ok \/ ~m.inserts_value.ok
           \/ ~m.deletes_value.ok
        THEN [panicked |-> TRUE, builder |-> builder, should_build |-> FALSE]
        ELSE [panicked |-> FALSE, builder |-> b6, should_build |-> m.files # None]

\* the scanner's work on one line
ScanLine(builder, line) == Matched(builder, LineMatches[line])

\* the values written on the lines since the last files-changed line
NothingWritten ==
    [hash |-> "", name |-> "", email |-> "", date |-> None,
     files |-> "", inserts |-> "", deletes |-> ""]

\* The lines taken so far, read by their kinds.  want: for each
\* files-changed line, the values written most lately on the lines since
\* the one before it; cur: those written since the last such line; nfiles:
\* how many files-changed lines there were; aborts: a line was taken whose
\* Date: value is no RFC 2822 date-time or whose number is above
\* 4294967295; late: a commit line came after its Author: or Date: line.
NothingNoted ==
    [want |-> <<>>, cur |-> NothingWritten, nfiles |-> 0, aborts |-> FALSE,
     late |-> FALSE]

Note(n, l) ==
    LET r == LogReading(l)
        k == r.kind
        stated == [n.cur EXCEPT
                      !.files = IF r.files # "" THEN r.files ELSE @,
                      !.inserts = IF r.inserts # "" THEN r.inserts ELSE @,
                      !.deletes = IF r.deletes # "" THEN r.deletes ELSE @]
        counted == [n EXCEPT !.nfiles = IF r.files # "" THEN @ + 1 ELSE @]
    IN  CASE k = "hash" ->
               [n EXCEPT !.cur.hash = r.hash,
                         !.late = @ \/ n.cur.name # "" \/ n.cur.date # None]
          [] k = "author" -> [n EXCEPT !.cur.name = r.name, !.cur.email = r.email]
          [] k = "date" -> [n EXCEPT !.cur.date = r.date]
          [] k = "text" -> n
          [] k \in {"baddate", "overflow"} -> [counted EXCEPT !.aborts = TRUE]
          [] k = "stats" ->
               IF r.files # ""
               THEN [counted EXCEPT !.want = Append(n.want, stated),
                                    !.cur = NothingWritten]
               ELSE [n EXCEPT !.cur = stated]

ScanInit ==
    /\ ParseInit
    /\ HistIdle
    /\ CallIdle
    /\ commits = <<>>
    /\ commit_builder = CommitBuilder_new
    /\ tlines = 0
    /\ tpc = "loop"
    /\ noted = NothingNoted

\* the end of a turn that goes on with the builder it has built
TurnKeepingBuilder(r, line) ==
    /\ tlines' = tlines + 1
    /\ noted' = Note(noted, line)
    /\ IF r.panicked
       THEN /\ tpc' = "panicked"
            /\ UNCHANGED <<commits, commit_builder>>
       ELSE /\ tpc' = "loop"
            /\ commit_builder' = r.builder
            /\ commits' = IF r.should_build THEN Append(commits, r.builder)
                           ELSE commits

\* a turn of the loop on `line`, r being the scanner's work on it: a panic
\* ends to_commits; otherwise the builder goes on, or is built, pushed and
\* replaced by a new one
Turn(r, line) ==
    /\ tlines' = tlines + 1
    /\ noted' = Note(noted, line)
    /\ IF r.panicked
       THEN /\ tpc' = "panicked"
            /\ UNCHANGED <<commits, commit_builder>>
       ELSE /\ tpc' = "loop"
            /\ commit_builder' = IF r.should_build THEN CommitBuilder_new
                                  ELSE r.builder
            /\ commits' = IF r.should_build THEN Append(commits, r.builder)
                           ELSE commits

\* one turn of `for line in logs.split('\n')`
LineStep ==
    /\ tpc = "loop"
    /\ tlines < MaxLogLines
    /\ \E line \in LogLineSet : Turn(ScanLine(commit_builder, line), line)
    /\ UNCHANGED <<pvars, hvars, fvars>>

\* the lines are exhausted (split gives at least one): to_commits returns
\* `commits`
ScanReturn ==
    /\ tpc = "loop"
    /\ tlines >= 1
    /\ tpc' = "done"
    /\ UNCHANGED <<commits, commit_builder, tlines, noted, pvars, hvars, fvars>>

ScanNext ==
    \/ LineStep
    \/ ScanReturn

ScanSpec == ScanInit /\ [][ScanNext]_vars

-----------------------------------------------------------------------------
(* Reading the claims: literal values against parsed values                *)

RECURSIVE NumeralOf(_)
\* the decimal numeral of a natural number
NumeralOf(n) ==
    LET d == CHOOSE c \in Digits : DigitVal(c) = n % 10
    IN  IF n < 10 THEN d ELSE NumeralOf(n \div 10) \o d

RECURSIVE StripZeros(_)
StripZeros(t) ==
    IF Len(t) > 1 /\ Ch(t, 1) = "0" THEN StripZeros(SubSeq(t, 2, Len(t))) ELSE t

\* the number written as t is at most 4294967295
FitsU32(t) ==
    LET d == StripZeros(t)
        m == "4294967295"
    IN  \/ Len(d) < Len(m)
        \/ /\ Len(d) = Len(m)
           /\ \/ d = m
              \/ \E i \in 1..Len(m) :
                    /\ SubSeq(d, 1, i - 1) = SubSeq(m, 1, i - 1)
                    /\ DigitVal(Ch(d, i)) < DigitVal(Ch(m, i))

\* a stat is the number written on the line, and 0 when the line has none
StatIsLiteral(v, t) == IF t = "" THEN v = 0 ELSE NumeralOf(v) = StripZeros(t)

\* ... and also 0 when the number written does not fit 32 bits
StatIsLiteralU32(v, t) ==
    IF t = "" \/ ~FitsU32(t) THEN v = 0 ELSE NumeralOf(v) = StripZeros(t)

HeaderIsLiteral(c, w) ==
    /\ c.hash = w.hash
    /\ c.author.name = w.name
    /\ c.author.email = w.email
    /\ c.date = w.date

IsLiteral(c, w) ==
    /\ HeaderIsLiteral(c, w)
    /\ StatIsLiteral(c.files, w.files)
    /\ StatIsLiteral(c.inserts, w.inserts)
    /\ StatIsLiteral(c.deletes, w.deletes)

IsLiteralU32(c, w) ==
    /\ HeaderIsLiteral(c, w)
    /\ StatIsLiteralU32(c.files, w.files)
    /\ StatIsLiteralU32(c.inserts, w.inserts)
    /\ StatIsLiteralU32(c.deletes, w.deletes)

\* the input so far starts with a record and follows the grammar
FollowsGrammar == seen.at # "bad" /\ ~seen.lead

\* the whole input is known and is records (and blank lines between/after)
WholeRecords == ended /\ seen.at = "between" /\ ~seen.lead

\* the input has not ended, and so far it is within one record and the blank
\* lines after it
WithinOneRecord ==
    /\ FollowsGrammar
    /\ ~ended
    /\ \/ Len(seen.want) = 0
       \/ Len(seen.want) = 1 /\ seen.at = "between"

Returned(tag) == ret.tag = tag

-----------------------------------------------------------------------------
(* C1                                                                      *)

\* C1 as stated: an input that is exactly one well-formed record never
\* fails, and once it is read whole parse has returned exactly one Commit
\* whose fields equal the literal values on the record's lines.
C1_SingleRecordLiteral ==
    /\ WithinOneRecord => ~Returned("Err")
    /\ (WholeRecords /\ Len(seen.want) = 1) =>
          /\ Returned("Ok")
          /\ Len(ret.commits) = 1
          /\ IsLiteral(ret.commits[1], seen.want[1])

\* C1 amended: the same, a stat whose number exceeds 4294967295 being 0.
C1_SingleRecord ==
    /\ WithinOneRecord => ~Returned("Err")
    /\ (WholeRecords /\ Len(seen.want) = 1) =>
          /\ Returned("Ok")
          /\ Len(ret.commits) = 1
          /\ IsLiteralU32(ret.commits[1], seen.want[1])

\* a single record with all three stats, after message lines, parsed
C1_Witness ==
    /\ WholeRecords
    /\ Len(seen.want) = 1
    /\ nlines > 4
    /\ Returned("Ok")
    /\ seen.want[1].deletes = "62"
    /\ seen.want[1].inserts = "43"
    /\ seen.want[1].name = "Not Jon"

-----------------------------------------------------------------------------
(* C2                                                                      *)

\* C2: an input of N >= 1 well-formed records separated by blank lines never
\* fails; the commits accepted so far are, in order, those of the first
\* records of the input; and once the input is read whole parse has
\* returned exactly N Commits, the i-th built from the i-th record.
C2_RecordsInOrder ==
    /\ (FollowsGrammar /\ ~ended) => ~Returned("Err")
    /\ FollowsGrammar =>
          /\ Len(result) <= Len(seen.want)
          /\ \A i \in 1..Len(result) : IsLiteralU32(result[i], seen.want[i])
    /\ WholeRecords =>
          /\ Returned("Ok")
          /\ Len(ret.commits) = Len(seen.want)
          /\ \A i \in 1..Len(ret.commits) :
                IsLiteralU32(ret.commits[i], seen.want[i])

\* two different records with a blank line between them, parsed
C2_Witness ==
    /\ WholeRecords
    /\ Returned("Ok")
    /\ Len(ret.commits) = 2
    /\ seen.gaps = 1
    /\ ret.commits[1].hash = "def456"
    /\ ret.commits[2].hash = "a75"
    /\ ret.commits[1].author # ret.commits[2].author
    /\ ret.commits[1].date # ret.commits[2].date

-----------------------------------------------------------------------------
(* C3                                                                      *)

\* C3 as stated: in every accepted commit each stat that its stats line
\* states equals the number on the line, and each stat the line lacks is 0.
C3_StatsLiteral ==
    \A i \in 1..Len(result) :
        /\ i <= Len(seen.want)
        /\ StatIsLiteral(result[i].files, seen.want[i].files)
        /\ StatIsLiteral(result[i].inserts, seen.want[i].inserts)
        /\ StatIsLiteral(result[i].deletes, seen.want[i].deletes)

\* C3 amended: the same, a stat whose number exceeds 4294967295 being 0.
C3_Stats ==
    \A i \in 1..Len(result) :
        /\ i <= Len(seen.want)
        /\ StatIsLiteralU32(result[i].files, seen.want[i].files)
        /\ StatIsLiteralU32(result[i].inserts, seen.want[i].inserts)
        /\ StatIsLiteralU32(result[i].deletes, seen.want[i].deletes)

\* an all-stats record, then a deletions-only one: inserts goes from 43 to 0
C3_Witness ==
    /\ Len(result) = 2
    /\ seen.want[1].inserts = "43"
    /\ seen.want[2].inserts = ""
    /\ seen.want[2].deletes = "62"
    /\ result[2].inserts = 0
    /\ result[2].deletes = 62
    /\ result[2].files = 1

-----------------------------------------------------------------------------
(* C4                                                                      *)

\* C4: once the input is exhausted in the stats-expecting state, parse has
\* returned the UnexpectedEndOfInput error.
C4_EndInStatsFails ==
    (state = "Stats" /\ ended) =>
        (Returned("Err") /\ ret.error = "UnexpectedEndOfInput")

-----------------------------------------------------------------------------
(* C5                                                                      *)

\* C5: whenever parse returns an error it returns no Commit, whatever it
\* had accepted before.
C5_ErrorReturnsNoCommit == Returned("Err") => ret.commits = <<>>

\* an error after a first record was accepted
C5_Witness == Returned("Err") /\ Len(result) >= 1

-----------------------------------------------------------------------------
(* C6                                                                      *)

\* C6: an input that ends right after a record's Author line fails with
\* UnexpectedEndOfInput in the date-expecting state, and the record in
\* progress is in neither the accepted nor the returned commits.
C6_EndAfterAuthor ==
    (ended /\ seen.at = "date" /\ ~seen.lead) =>
        /\ Returned("Err")
        /\ ret.error = "UnexpectedEndOfInput"
        /\ state = "Date"
        /\ ret.commits = <<>>
        /\ Len(result) = Len(seen.want)

\* the input ended after an Author line and parse has failed
C6_Witness == ended /\ seen.at = "date" /\ ~seen.lead /\ Returned("Err")

-----------------------------------------------------------------------------
(* C7                                                                      *)

\* C7: in the date-expecting state a line that matches the Date: pattern
\* with a value that is no date-time fails with BadDate, and a line that
\* does not match the pattern fails with NoMatch.
C7_DateErrors ==
    (~seen.lead /\ seen.why # <<>> /\ seen.why[1] = "date") =>
        /\ state = "Date"
        /\ Returned("Err")
        /\ ret.error = IF seen.why[2] = "baddate" THEN "BadDate" ELSE "NoMatch"

\* a Date: line with an invalid value met in the date-expecting state
C7_Witness ==
    /\ seen.why = <<"date", "baddate">>
    /\ state = "Date"
    /\ ret.error = "BadDate"

-----------------------------------------------------------------------------
(* C8                                                                      *)

\* C8: an input of blank lines only parses to the empty sequence, and blank
\* lines before the first record are skipped.
C8_BeginsInStart ==
    /\ (ended /\ seen.at = "start") => (Returned("Ok") /\ ret.commits = <<>>)
    /\ (seen.lead /\ seen.at # "bad" /\ ~ended) => ~Returned("Err")

-----------------------------------------------------------------------------
(* C9                                                                      *)

\* C9: every Commit a successful parse returns has a non-empty hash, author
\* name and author email, and the timestamp written on its record's Date
\* line.
C9_CommitsComplete ==
    Returned("Ok") =>
        /\ Len(ret.commits) = Len(seen.want)
        /\ \A i \in 1..Len(ret.commits) :
              /\ Len(ret.commits[i].hash) > 0
              /\ Len(ret.commits[i].author.name) > 0
              /\ Len(ret.commits[i].author.email) > 0
              /\ ret.commits[i].date = seen.want[i].date

\* two commits returned whose records state different dates
C9_Witness ==
    /\ Returned("Ok")
    /\ Len(ret.commits) = 2
    /\ seen.want[1].date # seen.want[2].date

-----------------------------------------------------------------------------
(* C10                                                                     *)

\* the keys of the histogram of a kind
KeyRange == IF kind = "ByHour" THEN 0..23 ELSE 1..7

RECURSIVE TotalOver(_, _)
TotalOver(f, S) ==
    IF S = {} THEN 0
    ELSE LET k == CHOOSE x \in S : TRUE IN f[k] + TotalOver(f, S \ {k})

\* C10: the bucket counts of the histogram built from N commits total N,
\* and all are 0 when N = 0.
C10_CountsTotalN ==
    hpc = "done" =>
        /\ TotalOver(h.counts, KeyRange) = Given
        /\ Given = 0 => \A k \in KeyRange : h.counts[k] = 0

-----------------------------------------------------------------------------
(* C11                                                                     *)

\* the key the calendar gives a date-time: its hour of day, or its weekday
\* with Monday = 1 (2022-11-24 was a Thursday, 2022-11-27 a Sunday)
KeyOf(d) ==
    IF kind = "ByHour" THEN d.hour
    ELSE CASE d = DateTime(2022, 11, 24, 22, 11, 50) -> 4
           [] d = DateTime(2022, 11, 27, 0, 5, 9) -> 7

\* C11: recording a commit never fails; it records one value, the commit's
\* hour of day (ByHour) or weekday from Monday = 1 (ByWeekday), which is a
\* key of the histogram, and the count of no other bucket changes.
C11_OneBucketInRange ==
    [][\A d \in GivenDates :
          given'[d] = given[d] + 1 =>
              /\ KeyOf(d) \in KeyRange
              /\ hpc' = "loop"
              /\ h'.total_count = h.total_count + 1
              /\ h'.counts[KeyOf(d)] >= h.counts[KeyOf(d)]
              /\ \A k \in DOMAIN h.counts \ {KeyOf(d)} :
                    h'.counts[k] = h.counts[k]]_vars

\* a histogram by hour built from commits at hour 0 and at hour 22
C11_Witness ==
    /\ hpc = "done"
    /\ kind = "ByHour"
    /\ h.counts[0] = 2
    /\ h.counts[22] = 1

-----------------------------------------------------------------------------
(* C12                                                                     *)

\* how many of the commits iterated so far have key k
CommitsWithKey(k) ==
    TotalOver([d \in GivenDates |-> IF KeyOf(d) = k THEN given[d] ELSE 0],
              GivenDates)

\* C12: the bucket counts are a function of the multiset of the commits'
\* date-times alone, whatever the order the commits came in: each count is
\* the number of commits with that key, up to the counter's maximum.
C12_CountsOfMultiset ==
    hpc \in {"loop", "done"} =>
        \A k \in DOMAIN h.counts :
            h.counts[k] = IF CommitsWithKey(k) >= u8_MAX THEN u8_MAX
                          ELSE CommitsWithKey(k)

\* a histogram by weekday built from Thursday and Sunday commits, which the
\* loop reaches in every order of the five
C12_Witness ==
    /\ hpc = "done"
    /\ kind = "ByWeekday"
    /\ \E d \in GivenDates : given[d] = 2
    /\ \E d \in GivenDates : given[d] = 3

-----------------------------------------------------------------------------
(* C13                                                                     *)

Cycle ==
    { <<"Start", "Hash">>, <<"Hash", "Author">>, <<"Author", "Date">>,
      <<"Date", "Stats">>, <<"Stats", "Accept">>, <<"Accept", "Start">> }

\* C13: every change of state is a step of the cycle Start -> Hash ->
\* Author -> Date -> Stats -> Accept -> Start; parse goes on in the same
\* state only in Start and in Stats; and a Commit is appended only by the
\* step Accept -> Start, after at least four lines were consumed for each
\* commit, with the hash, author and date it parsed.
C13_LinearCycle ==
    [][/\ state' # state => <<state, state'>> \in Cycle
       /\ (state' = state /\ ret' = Running) => state \in {"Start", "Stats"}
       /\ result' # result =>
             /\ state = "Accept" /\ state' = "Start"
             /\ result' = Append(result, commit)
             /\ nlines >= 4 * Len(result')
             /\ Len(commit.hash) > 0
             /\ Len(commit.author.name) > 0
             /\ Len(commit.author.email) > 0]_vars

\* a second record under way after the first went round the whole cycle
C13_Witness ==
    /\ Len(result) = 1
    /\ state = "Date"
    /\ ret = Running
    /\ seen.at = "date"
    /\ seen.gaps = 1

-----------------------------------------------------------------------------
(* C14                                                                     *)

\* C14: whenever the parser is in Start the in-progress commit is the
\* default one, Accept having reset it.
C14_StartHoldsDefault == state = "Start" => commit = Commit_default

-----------------------------------------------------------------------------
(* C15                                                                     *)

\* C15: in every successful parse the i-th returned Commit has all six
\* fields from the lines of the i-th record of the input, and none from an
\* earlier record: a stat the i-th stats line does not state is 0 whatever
\* the earlier records stated.
C15_NoLeak ==
    Returned("Ok") =>
        /\ Len(ret.commits) = Len(seen.want)
        /\ \A i \in 1..Len(ret.commits) :
              IsLiteralU32(ret.commits[i], seen.want[i])

\* a record stating all three stats, then one with other hash, author and
\* date whose stats line states the insertions only
C15_Witness ==
    /\ Returned("Ok")
    /\ Len(ret.commits) = 2
    /\ seen.want[1].hash # seen.want[2].hash
    /\ seen.want[1].name # seen.want[2].name
    /\ seen.want[1].date # seen.want[2].date
    /\ seen.want[1].files = "1"
    /\ seen.want[1].deletes = "62"
    /\ seen.want[2].files = ""
    /\ seen.want[2].deletes = ""
    /\ ret.commits[1].deletes = 62
    /\ ret.commits[2].deletes = 0

-----------------------------------------------------------------------------
(* C16                                                                     *)

\* C16: a step of the stats-expecting state that takes a line finds the
\* input past a Date line and before any line that states a stat; if the
\* line states none it is passed over with the commit and the state as
\* they were; if it states at least one, in a stats line or in the words
\* of a message, the state becomes Accept with all three stats set from
\* that line and the rest of the commit as it was.
C16_FirstMatchingLine ==
    [][(state = "Stats" /\ nlines' = nlines + 1) =>
          /\ seen.at = "body"
          /\ seen'.at = "body" =>
                (commit' = commit /\ state' = "Stats" /\ ret' = Running)
          /\ seen'.at # "body" =>
                LET w == seen'.want[Len(seen'.want)]
                IN  /\ seen'.at = "between"
                    /\ state' = "Accept"
                    /\ ret' = Running
                    /\ commit'.hash = commit.hash
                    /\ commit'.author = commit.author
                    /\ commit'.date = commit.date
                    /\ StatIsLiteralU32(commit'.files, w.files)
                    /\ StatIsLiteralU32(commit'.inserts, w.inserts)
                    /\ StatIsLiteralU32(commit'.deletes, w.deletes)]_vars

\* two lines were passed over, then the record was accepted on a message
\* line that states 3 files changed, and the stats line after it met the
\* hash-expecting state
C16_Witness ==
    /\ Len(result) = 1
    /\ result[1].files = 3
    /\ result[1].inserts = 0
    /\ nlines = 7
    /\ seen.why = <<"between", "stats">>
    /\ Returned("Err")

-----------------------------------------------------------------------------
(* C17                                                                     *)

\* C17: once the hash-, author- or date-expecting state has taken a line
\* that does not match its pattern, parse has failed with NoMatch in that
\* state, having taken no line after it: a blank first line, or a line
\* out of place in the input (a Date: line with a bad value in the
\* date-expecting state aside, which matches the pattern).
C17_StrictStates ==
    /\ (seen.lead /\ peeked = None) =>
          /\ Returned("Err") /\ ret.error = "NoMatch"
          /\ state = "Hash"
          /\ nlines = 1
    /\ (seen.at = "bad" /\ peeked = None /\ seen.why # <<"date", "baddate">>) =>
          /\ Returned("Err") /\ ret.error = "NoMatch"
          /\ state = CASE seen.why[1] \in {"start", "between"} -> "Hash"
                        [] seen.why[1] = "author" -> "Author"
                        [] seen.why[1] = "date" -> "Date"

\* a message line right after a completed record: it is not blank, Start
\* hands it to the hash-expecting state, and parse fails
C17_Witness ==
    /\ seen.why = <<"between", "text">>
    /\ Len(result) = 1
    /\ peeked = None
    /\ Returned("Err")

-----------------------------------------------------------------------------
(* C18                                                                     *)

\* C18: parse_author fails with NoMatch on an Author: line without a name,
\* without an email, with nothing inside the brackets or with no brackets;
\* on a line with a name, then " <", an email and ">", it returns that
\* name, brackets of its own included, and that email.
C18_AuthorPattern ==
    out # None =>
        out[1] = CASE arg.shape = "full" -> Ok(Author_new(arg.name, arg.email))
                   [] arg.shape = "absent" -> Err("UnexpectedEndOfInput")
                   [] OTHER -> Err("NoMatch")

\* a name that holds an earlier " <...>" group: the last group is the email
C18_Witness ==
    /\ out # None
    /\ arg.shape = "full"
    /\ arg.name = "Jon <jon@old.ca>"
    /\ arg.email = "jon@email.ca"
    /\ out[1].ok

-----------------------------------------------------------------------------
(* C19                                                                     *)

\* how many lines lines.next() has taken
Consumed == nlines - (IF peeked = None THEN 0 ELSE 1)

\* C19: a step takes at most one line and the iterator moves on by at most
\* one; a peeked line is the next one taken, by the hash-expecting state,
\* which parses that very line; Accept takes none; the hash-, author-,
\* date- and stats-expecting states take one line a step unless none is
\* left; Start takes a line only when it is blank and stays, and else
\* ends the parse or leaves a non-blank line peeked for the
\* hash-expecting state.
C19_LinesConsumedOnce ==
    [][LET took == Consumed' - Consumed
       IN  /\ took \in {0, 1}
           /\ nlines' - nlines \in {0, 1}
           /\ peeked # None =>
                 /\ state = "Hash" /\ took = 1 /\ nlines' = nlines
                 /\ IF Reading(peeked[1]).kind = "hash"
                    THEN /\ commit'.hash = Reading(peeked[1]).hash
                         /\ state' = "Author"
                    ELSE ret'.error = "NoMatch"
           /\ state = "Accept" => (took = 0 /\ nlines' = nlines)
           /\ state \in {"Hash", "Author", "Date", "Stats"} =>
                 /\ peeked' = None
                 /\ took = 1 \/ (took = 0 /\ ended' /\ nlines' = nlines)
           /\ state = "Start" =>
                 IF took = 1
                 THEN state' = "Start" /\ peeked' = None /\ seen'.trail
                 ELSE \/ /\ ended' /\ nlines' = nlines
                         /\ ret'.tag = "Ok"
                      \/ /\ peeked' # None /\ nlines' = nlines + 1
                         /\ Reading(peeked'[1]).kind # "blank"
                         /\ state' = "Hash"]_vars

\* after a record and a blank line, Start peeked the commit line of the
\* next record and the hash-expecting state took it
C19_Witness ==
    /\ state = "Author"
    /\ ret = Running
    /\ Len(result) = 1
    /\ seen.gaps = 1
    /\ nlines = 6
    /\ peeked = None
    /\ commit.hash = "def456"
    /\ result[1].hash = "a75"

-----------------------------------------------------------------------------
(* C20                                                                     *)

\* the record states a number above 4294967295
Oversize(w) ==
    \/ w.files # "" /\ ~FitsU32(w.files)
    \/ w.inserts # "" /\ ~FitsU32(w.inserts)
    \/ w.deletes # "" /\ ~FitsU32(w.deletes)

\* C20: a stats line that states a number above 4294967295 does not fail
\* the parse: the line ends its record, the record is accepted, and the
\* accepted commit has 0 for that stat.
C20_OversizeStatIsZero ==
    /\ \A i \in 1..Len(result) :
          /\ i <= Len(seen.want)
          /\ (seen.want[i].files # "" /\ ~FitsU32(seen.want[i].files)) =>
                result[i].files = 0
          /\ (seen.want[i].inserts # "" /\ ~FitsU32(seen.want[i].inserts)) =>
                result[i].inserts = 0
          /\ (seen.want[i].deletes # "" /\ ~FitsU32(seen.want[i].deletes)) =>
                result[i].deletes = 0
    /\ (/\ seen.at = "between" /\ ~seen.lead
        /\ Oversize(seen.want[Len(seen.want)])) =>
          /\ ~Returned("Err")
          /\ IF state = "Accept" THEN Len(result) = Len(seen.want) - 1
             ELSE Len(result) = Len(seen.want)

\* a record stating 62 deletions, then one whose stats line states only
\* 4294967297 deletions: both returned, the second with deletes = 0
C20_Witness ==
    /\ Returned("Ok")
    /\ Len(ret.commits) = 2
    /\ seen.want[1].deletes = "62"
    /\ seen.want[2].deletes = "4294967297"
    /\ seen.want[2].files = ""
    /\ seen.want[2].inserts = ""
    /\ ret.commits[2].deletes = 0

-----------------------------------------------------------------------------
(* C21                                                                     *)

\* a commit of the scanner has the values written
WrittenIn(c, w) ==
    /\ c.hash = w.hash
    /\ c.name = w.name
    /\ c.email = w.email
    /\ c.date = w.date
    /\ StatIsLiteral(c.files, w.files)
    /\ StatIsLiteral(c.inserts, w.inserts)
    /\ StatIsLiteral(c.deletes, w.deletes)

\* what to_commits has handed to its caller: nothing when it panicked
Emitted == IF tpc = "done" THEN commits ELSE <<>>

\* C21 as stated: whatever the input, once to_commits has ended it has
\* emitted one commit for each line that states the files changed.
C21_OnePerFilesLine ==
    tpc \in {"done", "panicked"} => Len(Emitted) = noted.nfiles

\* C21 amended: to_commits panics exactly on a line whose Date: value is
\* no RFC 2822 date-time or that states a number above 4294967295; short
\* of that it has one commit for each line that states the files changed,
\* in order, each with the values written most lately since the line
\* before it, in whatever order their lines came, and its builder holds
\* only what was written since the last such line; a line that states
\* insertions or deletions only adds no commit.
C21_LegacyScan ==
    /\ tpc = "panicked" <=> (tpc # "idle" /\ noted.aborts)
    /\ tpc \in {"loop", "done"} =>
          /\ Len(commits) = noted.nfiles
          /\ Len(commits) = Len(noted.want)
          /\ \A i \in 1..Len(commits) : WrittenIn(commits[i], noted.want[i])
          /\ WrittenIn(commit_builder, noted.cur)

\* to_commits returned two commits: the first with a hash that came after
\* its Author: or Date: line, the second from a files-changed line alone
\* that followed a line of insertions only
C21_Witness ==
    /\ tpc = "done"
    /\ Len(commits) = 2
    /\ noted.late
    /\ commits[1].hash = "a75"
    /\ commits[1].name = "Jon"
    /\ commits[2].hash = ""
    /\ commits[2].inserts = 22
    /\ commits[2].files = 2

====
